---- MODULE Spec2Model ----
(***************************************************************************)
(* One logical call through aws-hyper's Client::call_raw: the tower retry  *)
(* driver around ParseResponseService, the request Stages, the dispatcher  *)
(* and load_response / read_body, with the SdkSuccess / SdkError result    *)
(* model.                                                                  *)
(***************************************************************************)
EXTENDS Integers, Sequences, FiniteSets, TLC

VARIABLES
    pc,             \* position of the call's future
    input,          \* the Operation handed to call_raw
    op,             \* the Operation travelling through the current attempt
    cloned,         \* Retry's saved clone of the Operation: <<>> or <<op>>
    stageIdx,       \* next Stage of the pipeline to run
    clock,          \* monotonic source the Stages stamp from
    dispatcher,     \* readiness of the underlying transport
    response,       \* raw response of the current attempt: <<>> or <<resp>>
    output,         \* read_body's Vec<u8>
    result,         \* Result of the current attempt, once it has one: <<>> or <<res>>
    returned,       \* what call_raw returned: <<>> or <<res>>
    attempt,        \* number of the current attempt (0 before the first)
    prevTrail,      \* Stage stamps the previous attempt's request had collected
    signed,         \* request the signer produced in this attempt: <<>> or <<req>>
    dispatched,     \* requests the transport observed, in order
    outcomes,       \* "err" / "ok" per transport call
    sentNow,        \* transport calls of this attempt
    failedAt,       \* Stage failures so far: the attempt and the Stage
    bodyReads,      \* polls of body.data() in this attempt
    unloaded,       \* answers of handler.parse_unloaded in this attempt
    loadedArgs,     \* responses handed to handler.parse_loaded in this attempt
    loadedOut,      \* what handler.parse_loaded answered in this attempt
    verdicts,       \* should_retry verdicts, in order
    sleeps,         \* completed retry delays
    readyFailed     \* a failed readiness poll ended the call

vars == <<pc, input, op, cloned, stageIdx, clock, dispatcher, response, output,
          result, returned, attempt, prevTrail, signed, dispatched, outcomes,
          sentNow, failedAt, bodyReads, unloaded, loadedArgs, loadedOut,
          verdicts, sleeps, readyFailed>>

(***************************************************************************)
(* Bounds                                                                  *)
(***************************************************************************)
MaxRetries == 1     \* retries the policy may grant in one call
MaxChunks == 2      \* data frames of a response body
MaxSegs == 2        \* non-contiguous slices of one Buf

(***************************************************************************)
(* Sequences                                                               *)
(***************************************************************************)
RECURSIVE SeqsUpTo(_, _)
SeqsUpTo(S, n) ==
    IF n = 0 THEN {<<>>}
    ELSE LET shorter == SeqsUpTo(S, n - 1)
         IN shorter \cup {Append(s, x) : s \in {t \in shorter : Len(t) = n - 1}, x \in S}

RECURSIVE SumTo(_, _)
SumTo(s, n) == IF n = 0 THEN 0 ELSE SumTo(s, n - 1) + s[n]

Last(s) == s[Len(s)]

(***************************************************************************)
(* Response bodies.  A body is a stream of frames; a frame is a Buf (a     *)
(* sequence of slices) or a read error.  Bytes are numbered 1, 2, ... in   *)
(* stream order, so any reordering, loss or duplication is visible.        *)
(***************************************************************************)
DataFrame(offset, nsegs) ==
    [err |-> FALSE, buf |-> [j \in 1..nsegs |-> <<offset + j>>]]

ErrFrame == [err |-> TRUE, buf |-> <<>>]

StreamOf(shape, fails) ==
    LET data == [i \in 1..Len(shape) |-> DataFrame(SumTo(shape, i - 1), shape[i])]
    IN [frames |-> IF fails THEN Append(data, ErrFrame) ELSE data, pos |-> 0]

Bodies ==
    {StreamOf(shape, FALSE) : shape \in SeqsUpTo(0..MaxSegs, MaxChunks)}
    \cup {StreamOf(shape, TRUE) : shape \in SeqsUpTo(0..MaxSegs, MaxChunks - 1)}

Heads == {[status |-> 200, headers |-> "content-type"],
          [status |-> 503, headers |-> "retry-after"]}

Responses == {[status |-> h.status, headers |-> h.headers, body |-> b] :
                h \in Heads, b \in Bodies}

\* The bytes a stream carries, in order.
RECURSIVE BufBytes(_)
BufBytes(buf) == IF buf = <<>> THEN <<>> ELSE Head(buf) \o BufBytes(Tail(buf))

RECURSIVE StreamBytes(_)
StreamBytes(frames) ==
    IF frames = <<>> \/ Head(frames).err THEN <<>>
    ELSE BufBytes(Head(frames).buf) \o StreamBytes(Tail(frames))

(***************************************************************************)
(* Result model: SdkSuccess / SdkError.  raw, err and parsed are options,  *)
(* written <<>> (absent) or <<x>>.                                         *)
(***************************************************************************)
SdkSuccess(raw, parsed) ==
    [variant |-> "SdkSuccess", raw |-> <<raw>>, err |-> <<>>, parsed |-> <<parsed>>]

ConstructionFailure(e) ==
    [variant |-> "ConstructionFailure", raw |-> <<>>, err |-> <<e>>, parsed |-> <<>>]

DispatchFailure(e) ==
    [variant |-> "DispatchFailure", raw |-> <<>>, err |-> <<e>>, parsed |-> <<>>]

ResponseError(raw, e) ==
    [variant |-> "ResponseError", raw |-> <<raw>>, err |-> <<e>>, parsed |-> <<>>]

ServiceError(raw, e) ==
    [variant |-> "ServiceError", raw |-> <<raw>>, err |-> <<e>>, parsed |-> <<>>]

\* A handler's Result<T, E>.
Ok(v) == [ok |-> TRUE, val |-> v]
Err(e) == [ok |-> FALSE, val |-> e]

\* sdk_result reporting a handler's Err without the response it came from.
sdk_result_asDispatch(parsed, raw) ==
    IF parsed.ok THEN SdkSuccess(raw, parsed.val) ELSE DispatchFailure(parsed.val)

\* sdk_result with its two arms exchanged.
sdk_result_swapped(parsed, raw) ==
    IF parsed.ok THEN ServiceError(raw, parsed.val) ELSE SdkSuccess(raw, parsed.val)

sdk_result(parsed, raw) ==
    IF parsed.ok THEN SdkSuccess(raw, parsed.val) ELSE ServiceError(raw, parsed.val)

\* OperationError: what a Stage or the dispatcher surfaces.
ConstructionError(e) == [kind |-> "ConstructionError", err |-> e]
DispatchError(e) == [kind |-> "DispatchError", err |-> e]

\* operation_error losing the distinction, one way and the other.
operation_error_allDispatch(o) == DispatchFailure(o.err)

operation_error_allConstruction(o) == ConstructionFailure(o.err)

operation_error(o) ==
    IF o.kind = "DispatchError" THEN DispatchFailure(o.err) ELSE ConstructionFailure(o.err)

(***************************************************************************)
(* Response handlers (ParseHttpResponse).                                  *)
(*   headers_only  answers from status and headers alone                  *)
(*   needs_body    always asks for the loaded body                         *)
(*   hybrid        answers a 200 unloaded, needs the body of an error      *)
(***************************************************************************)
Handlers == {"headers_only", "needs_body", "hybrid"}

Seen(status, headers, bytes) == [status |-> status, headers |-> headers, body |-> bytes]

parse_unloaded(handler, resp) ==
    LET seen == Seen(resp.status, resp.headers, <<>>)
        answer == IF resp.status = 200 THEN Ok(seen) ELSE Err(seen)
    IN CASE handler = "headers_only" -> <<answer>>
         [] handler = "needs_body" -> <<>>
         [] OTHER -> IF resp.status = 200 THEN <<answer>> ELSE <<>>

parse_loaded(handler, resp) ==
    LET seen == Seen(resp.status, resp.headers, resp.body)
    IN IF resp.status = 200 THEN Ok(seen) ELSE Err(seen)

(***************************************************************************)
(* read_body and the body conversions of load_response                     *)
(***************************************************************************)
\* read_body without the inner loop: only the first slice of a Buf is copied.
RECURSIVE DrainBuf_firstSlice(_, _)
DrainBuf_firstSlice(out, buf) == IF buf = <<>> THEN out ELSE out \o Head(buf)

\* The inner loop: copy every slice of the Buf, advancing past it.
RECURSIVE DrainBuf(_, _)
DrainBuf(out, buf) ==
    IF buf = <<>> THEN out ELSE DrainBuf(out \o Head(buf), Tail(buf))

\* B::from(Bytes): a body that yields the bytes as one frame, or nothing.
FromBytes(bytes) ==
    [frames |-> IF bytes = <<>> THEN <<>> ELSE <<[err |-> FALSE, buf |-> <<bytes>>]>>,
     pos |-> 0]

\* response.map(f): the body replaced, status and headers kept.
MapBody(resp, body) == [status |-> resp.status, headers |-> resp.headers, body |-> body]

(***************************************************************************)
(* Operations, requests and Stages                                         *)
(***************************************************************************)
\* The signer layered before the user-agent and credential Stages.
Stages_signEarly == <<"endpoint", "sign", "user_agent", "credentials">>

Stages == <<"endpoint", "user_agent", "credentials", "sign">>

NewRequest == [base |-> "request", trail |-> <<>>, sig |-> <<>>]

\* What a signature covers: the request as the signer saw it.
Digest(req) == [base |-> req.base, trail |-> req.trail]

ApplyStage(name, req, now) ==
    LET stamped == [req EXCEPT !.trail = Append(@, [stage |-> name, stamp |-> now])]
    IN IF name = "sign" THEN [stamped EXCEPT !.sig = <<Digest(stamped)>>] ELSE stamped

Operations == [request : {NewRequest}, handler : Handlers, cloneable : BOOLEAN]

\* clone_request handing back the request whether or not it can be cloned.
clone_request_always(req) == <<req>>

\* RetryStrategy::clone_request: req.try_clone().
clone_request(req) == IF req.cloneable THEN <<req>> ELSE <<>>

\* retry that builds the delay future whatever should_retry said.
retry_always(verdict) == TRUE

\* retry with the Option read the wrong way round.
retry_inverted(verdict) == verdict = "None"

\* retry that gives up although should_retry said Some.
retry_ignoresGrant(verdict) == FALSE

\* retry that never builds the delay future.
retry_never(verdict) == FALSE

\* RetryStrategy::retry: a delay future iff should_retry gave Some.
retry(verdict) == verdict = "Some"

\* A retry that replays the request the previous attempt decorated.
RetryRequest_replay(saved, spent) == spent

\* Retry's ResponseFuture: the attempt after a granted retry runs the saved
\* clone, not the Operation the previous attempt consumed.
RetryRequest(saved, spent) == saved

\* load_response ignoring the unloaded answer.
FastPath_never(answer) == FALSE

\* load_response: `if let Some(parsed_response) = handler.parse_unloaded(..)`.
FastPath(answer) == answer # <<>>

\* read_body taking the first poll for the end of the stream.
NextFrame_endsEarly(body) == <<>>

\* read_body: `body.data().await`, the next frame or None at the end.
NextFrame(body) ==
    IF body.pos < Len(body.frames) THEN <<body.frames[body.pos + 1]>> ELSE <<>>

\* read_body swallowing a failed frame.
FrameFailed_ignored(frame) == FALSE

\* read_body: `let mut buf = buf?`.
FrameFailed(frame) == frame.err

\* A readiness poll that lets the call through whatever the transport says.
Ready_unchecked(d) == TRUE

\* A readiness poll that never reports ready.
Ready_never(d) == FALSE

\* ParseResponseService::poll_ready: inner.poll_ready(cx) returned Ready(Ok).
Ready(d) == d = "ready"

\* A granted retry that goes straight to the next call.
AfterGrant_noDelay == "retrying"

\* RetryStrategy::retry: the future it returns sleeps before it yields the
\* next policy; the driver retries once that future completes.
AfterGrant == "sleep"

\* The fixed delay of RetryStrategy::retry, in seconds.
RetryDelay == 5

(***************************************************************************)
(* Initial state: call_raw has built the service stack around `input`.     *)
(***************************************************************************)
Init ==
    /\ input \in Operations
    /\ dispatcher \in {"busy", "ready"}
    /\ pc = "ready"
    /\ op = input
    /\ cloned = <<>>
    /\ stageIdx = 1
    /\ clock = 1
    /\ response = <<>>
    /\ output = <<>>
    /\ result = <<>>
    /\ returned = <<>>
    /\ attempt = 0
    /\ prevTrail = <<>>
    /\ signed = <<>>
    /\ dispatched = <<>>
    /\ outcomes = <<>>
    /\ sentNow = 0
    /\ failedAt = <<>>
    /\ bodyReads = 0
    /\ unloaded = <<>>
    /\ loadedArgs = <<>>
    /\ loadedOut = <<>>
    /\ verdicts = <<>>
    /\ sleeps = 0
    /\ readyFailed = FALSE

\* Everything an attempt starts from: Retry hands `req` to ParseResponseService::call.
BeginAttempt(req) ==
    /\ op' = req
    /\ attempt' = attempt + 1
    /\ prevTrail' = op.request.trail
    /\ stageIdx' = 1
    /\ pc' = "stages"
    /\ response' = <<>>
    /\ output' = <<>>
    /\ result' = <<>>
    /\ signed' = <<>>
    /\ sentNow' = 0
    /\ bodyReads' = 0
    /\ unloaded' = <<>>
    /\ loadedArgs' = <<>>
    /\ loadedOut' = <<>>

\* The transport's readiness changes while a poll_ready is pending.
DispatcherSettles ==
    /\ pc \in {"ready", "retrying"}
    /\ dispatcher = "busy"
    /\ dispatcher' \in {"ready", "failed"}
    /\ UNCHANGED <<pc, input, op, cloned, stageIdx, clock, response, output,
                   result, returned, attempt, prevTrail, signed, dispatched, outcomes,
                   sentNow, failedAt, bodyReads, unloaded, loadedArgs, loadedOut,
                   verdicts, sleeps, readyFailed>>

\* poll_ready fails: `?` in call_raw, or in Retry's retrying state, ends the call.
ReadyFails ==
    /\ pc \in {"ready", "retrying"}
    /\ dispatcher = "failed"
    /\ returned' = <<operation_error(DispatchError([kind |-> "not_ready"]))>>
    /\ readyFailed' = TRUE
    /\ pc' = "done"
    /\ UNCHANGED <<input, op, cloned, stageIdx, clock, dispatcher, response, output,
                   result, attempt, prevTrail, signed, dispatched, outcomes,
                   sentNow, failedAt, bodyReads, unloaded, loadedArgs, loadedOut,
                   verdicts, sleeps>>

\* svc.ready_and().await?.call(input): Retry::call clones, then calls the stack.
FirstCall ==
    /\ pc = "ready"
    /\ Ready(dispatcher)
    /\ cloned' = clone_request(input)
    /\ BeginAttempt(input)
    /\ UNCHANGED <<input, clock, dispatcher, returned, dispatched, outcomes,
                   failedAt, verdicts, sleeps, readyFailed>>

\* One request Stage of the pipeline.
RunStage ==
    /\ pc = "stages"
    /\ LET name == Stages[stageIdx] IN
       \E ok \in BOOLEAN :
          IF ok
          THEN /\ op' = [op EXCEPT !.request = ApplyStage(name, @, clock)]
               /\ clock' = clock + 1
               /\ stageIdx' = stageIdx + 1
               /\ signed' = IF name = "sign" THEN <<op'.request>> ELSE signed
               /\ pc' = IF stageIdx = Len(Stages) THEN "dispatch" ELSE "stages"
               /\ UNCHANGED <<result, failedAt>>
          ELSE /\ failedAt' = Append(failedAt, [attempt |-> attempt, stage |-> name])
               /\ result' = <<operation_error(
                                 ConstructionError([kind |-> "stage", stage |-> name]))>>
               /\ pc' = "policy"
               /\ UNCHANGED <<op, clock, stageIdx, signed>>
    /\ UNCHANGED <<input, cloned, dispatcher, response, output, returned, attempt,
                   prevTrail, dispatched, outcomes, sentNow, bodyReads, unloaded,
                   loadedArgs, loadedOut, verdicts, sleeps, readyFailed>>

\* The terminal dispatcher: the transport takes the request and answers.
Dispatch ==
    /\ pc = "dispatch"
    /\ dispatched' = Append(dispatched, op.request)
    /\ sentNow' = sentNow + 1
    /\ dispatcher' \in {"busy", "ready"}
    /\ \/ /\ outcomes' = Append(outcomes, "err")
          /\ result' = <<operation_error(DispatchError([kind |-> "transport"]))>>
          /\ pc' = "policy"
          /\ UNCHANGED response
       \/ /\ outcomes' = Append(outcomes, "ok")
          /\ \E resp \in Responses : response' = <<resp>>
          /\ pc' = "loading"
          /\ UNCHANGED result
    /\ UNCHANGED <<input, op, cloned, stageIdx, clock, output, returned, attempt,
                   prevTrail, signed, failedAt, bodyReads, unloaded, loadedArgs,
                   loadedOut, verdicts, sleeps, readyFailed>>

\* load_response up to its first await.
LoadResponse ==
    /\ pc = "loading"
    /\ LET resp == response[1]
           answer == parse_unloaded(op.handler, resp)
       IN /\ unloaded' = Append(unloaded, answer)
          /\ IF FastPath(answer)
             THEN /\ result' = <<sdk_result(answer[1], resp)>>
                  /\ pc' = "policy"
             ELSE /\ pc' = "drain"
                  /\ UNCHANGED result
    /\ output' = <<>>
    /\ UNCHANGED <<input, op, cloned, stageIdx, clock, dispatcher, response, returned,
                   attempt, prevTrail, signed, dispatched, outcomes, sentNow,
                   failedAt, bodyReads, loadedArgs, loadedOut, verdicts, sleeps,
                   readyFailed>>

\* read_body: one poll of body.data(), and, at the end of the stream, the
\* rest of load_response.
ReadBody ==
    /\ pc = "drain"
    /\ bodyReads' = bodyReads + 1
    /\ LET resp == response[1]
           frame == NextFrame(resp.body)
           advanced == [resp EXCEPT !.body.pos = @ + 1]
       IN IF frame = <<>>
          THEN LET buffered == MapBody(resp, output)
                   parsed == parse_loaded(op.handler, buffered)
               IN /\ loadedArgs' = Append(loadedArgs, buffered)
                  /\ loadedOut' = Append(loadedOut, parsed)
                  /\ result' = <<sdk_result(parsed,
                                    MapBody(buffered, FromBytes(buffered.body)))>>
                  /\ pc' = "policy"
                  /\ UNCHANGED <<response, output>>
          ELSE IF FrameFailed(frame[1])
          THEN /\ result' = <<ResponseError(advanced,
                                  [kind |-> "read", frame |-> advanced.body.pos])>>
               /\ response' = <<advanced>>
               /\ pc' = "policy"
               /\ UNCHANGED <<output, loadedArgs, loadedOut>>
          ELSE /\ output' = DrainBuf(output, frame[1].buf)
               /\ response' = <<advanced>>
               /\ UNCHANGED <<pc, result, loadedArgs, loadedOut>>
    /\ UNCHANGED <<input, op, cloned, stageIdx, clock, dispatcher, returned, attempt,
                   prevTrail, signed, dispatched, outcomes, sentNow, failedAt,
                   unloaded, verdicts, sleeps, readyFailed>>

\* A Stage failed in the current attempt.
StageFailed == \E i \in DOMAIN failedAt : failedAt[i].attempt = attempt

Grants == Cardinality({i \in DOMAIN verdicts : verdicts[i] = "Some"})

\* Retry with no saved clone: the attempt's Result is the call's.
ReturnUncloned ==
    /\ pc = "policy"
    /\ cloned = <<>>
    /\ returned' = result
    /\ pc' = "done"
    /\ UNCHANGED <<input, op, cloned, stageIdx, clock, dispatcher, response, output,
                   result, attempt, prevTrail, signed, dispatched, outcomes,
                   sentNow, failedAt, bodyReads, unloaded, loadedArgs, loadedOut,
                   verdicts, sleeps, readyFailed>>

\* RetryStrategy::retry on the attempt's Result.
ConsultPolicy ==
    /\ pc = "policy"
    /\ cloned # <<>>
    /\ \E verdict \in {"Some", "None"} :
          /\ verdict = "Some" => Grants < MaxRetries
          /\ verdicts' = Append(verdicts, verdict)
          /\ IF retry(verdict)
             THEN /\ pc' = AfterGrant
                  /\ UNCHANGED returned
             ELSE /\ returned' = result
                  /\ pc' = "done"
    /\ UNCHANGED <<input, op, cloned, stageIdx, clock, dispatcher, response, output,
                   result, attempt, prevTrail, signed, dispatched, outcomes,
                   sentNow, failedAt, bodyReads, unloaded, loadedArgs, loadedOut,
                   sleeps, readyFailed>>

\* tokio::time::sleep(Duration::new(5, 0)).
Sleep ==
    /\ pc = "sleep"
    /\ sleeps' = sleeps + 1
    /\ pc' = "retrying"
    /\ UNCHANGED <<input, op, cloned, stageIdx, clock, dispatcher, response, output,
                   result, returned, attempt, prevTrail, signed, dispatched, outcomes,
                   sentNow, failedAt, bodyReads, unloaded, loadedArgs, loadedOut,
                   verdicts, readyFailed>>

\* Retry's retrying state: ready, take the clone, clone it again, call.
RetryCall ==
    /\ pc = "retrying"
    /\ Ready(dispatcher)
    /\ LET req == RetryRequest(cloned[1], op)
       IN /\ cloned' = clone_request(req)
          /\ BeginAttempt(req)
    /\ UNCHANGED <<input, clock, dispatcher, returned, dispatched, outcomes,
                   failedAt, verdicts, sleeps, readyFailed>>

Next ==
    \/ DispatcherSettles
    \/ ReadyFails
    \/ FirstCall
    \/ RunStage
    \/ Dispatch
    \/ LoadResponse
    \/ ReadBody
    \/ ReturnUncloned
    \/ ConsultPolicy
    \/ Sleep
    \/ RetryCall

Spec == Init /\ [][Next]_vars

\* Every awaited step (readiness, a Stage, the exchange, a body frame, the
\* delay) completes, and the task is polled again when it does.
FairSpec == Spec /\ WF_vars(Next)

(***************************************************************************)
(* Observations shared by the properties                                   *)
(***************************************************************************)
\* parse_unloaded answered in the current attempt.
Answered == unloaded # <<>> /\ unloaded[1] # <<>>

\* Status and headers of two responses agree.
SameHead(a, b) == a.status = b.status /\ a.headers = b.headers

StageNames(req) == [i \in DOMAIN req.trail |-> req.trail[i].stage]

\* A frame of the current response that read_body has polled was an error.
ReadFailed ==
    /\ response # <<>>
    /\ \E i \in 1..response[1].body.pos :
          i <= Len(response[1].body.frames) /\ response[1].body.frames[i].err

(***************************************************************************)
(* C1: in load_response, whenever parse_unloaded returns an answer, the    *)
(* body is never polled, the result is built from that answer and the      *)
(* response exactly as the transport returned it (body stream at its       *)
(* start), and parse_loaded is not called.                                 *)
(***************************************************************************)
C1_FastPathLeavesBody ==
    Answered =>
        /\ bodyReads = 0
        /\ loadedArgs = <<>>
        /\ response[1].body.pos = 0
        /\ pc # "drain"
        /\ result # <<>>
        /\ result[1].raw = <<response[1]>>
        /\ IF unloaded[1][1].ok
           THEN result[1].parsed = <<unloaded[1][1].val>>
           ELSE result[1].err = <<unloaded[1][1].val>>

\* An answer was given for a response whose body had frames to read.
C1_Witness ==
    /\ pc = "policy"
    /\ Answered
    /\ Len(response[1].body.frames) = MaxChunks
    /\ result[1].raw[1].body.pos = 0

C3_RetryRerunsStages ==
    /\ attempt >= 1 =>
          /\ Len(op.request.trail) = stageIdx - 1
          /\ (stageIdx = 1 => op.request = input.request)
    /\ attempt >= 2 =>
          \A i \in DOMAIN op.request.trail :
             i \in DOMAIN prevTrail =>
                /\ op.request.trail[i].stage = prevTrail[i].stage
                /\ op.request.trail[i].stamp > prevTrail[i].stamp
    /\ \A k \in DOMAIN dispatched :
          /\ Len(dispatched[k].trail) = 4
          /\ k > 1 =>
                \A i \in 1..4 :
                   dispatched[k].trail[i].stamp > dispatched[k - 1].trail[i].stamp

\* A retried attempt reached the transport, as the attempt before it had.
C3_Witness ==
    /\ attempt = 2
    /\ Len(dispatched) = 2
    /\ Len(prevTrail) = 4
    /\ sentNow = 1

(***************************************************************************)
(* C4: each attempt's request passes the Stages in the order endpoint,     *)
(* user agent, credentials, signing, then dispatch; nothing changes the    *)
(* request after it is signed, so the transport receives exactly the       *)
(* signer's output and the signature covers the fully decorated request.   *)
(***************************************************************************)
C4_StagesInFixedOrder ==
    /\ \A k \in DOMAIN dispatched :
          LET d == dispatched[k] IN
          /\ StageNames(d) = <<"endpoint", "user_agent", "credentials", "sign">>
          /\ \A i \in 1..3 : d.trail[i].stamp < d.trail[i + 1].stamp
          /\ d.sig = <<Digest(d)>>
    /\ signed # <<>> =>
          /\ op.request = signed[1]
          /\ signed[1].sig = <<Digest(signed[1])>>
          /\ StageNames(signed[1]) = <<"endpoint", "user_agent", "credentials", "sign">>
    /\ sentNow >= 1 => (signed # <<>> /\ Last(dispatched) = signed[1])
    /\ (attempt >= 1 /\ stageIdx <= 4) => op.request.sig = <<>>

\* The transport has received a signed request.
C4_Witness ==
    /\ sentNow = 1
    /\ signed # <<>>
    /\ Last(dispatched).sig # <<>>

(***************************************************************************)
(* The scenarios of C5 and C6, read off the call's history.                *)
(***************************************************************************)
\* Every Stage of every attempt succeeded and no readiness poll failed.
PipelineHealthy == failedAt = <<>> /\ ~readyFailed

\* The response of the current attempt is one a handler accepts: status 200
\* and a body that streams to its end.
ResponseHealthy ==
    /\ response # <<>>
    /\ response[1].status = 200
    /\ \A i \in DOMAIN response[1].body.frames : ~response[1].body.frames[i].err

(***************************************************************************)
(* C5: with an Operation that can be cloned, a policy that grants exactly  *)
(* one retry, and a dispatcher that fails the first attempt and answers    *)
(* the second with a good response, the call ends in SdkSuccess and the    *)
(* dispatcher has observed exactly two calls.                              *)
(***************************************************************************)
C5_OneRetryThenSuccess ==
    ( /\ pc = "done"
      /\ input.cloneable
      /\ PipelineHealthy
      /\ Grants = 1
      /\ outcomes # <<>>
      /\ outcomes[1] = "err"
      /\ Len(outcomes) >= 2 => (outcomes[2] = "ok" /\ ResponseHealthy) )
    =>
        /\ returned[1].variant = "SdkSuccess"
        /\ returned[1].raw # <<>>
        /\ returned[1].raw[1].status = 200
        /\ Len(dispatched) = 2
        /\ outcomes = <<"err", "ok">>
        /\ attempt = 2

\* The call ended after a failed and then a successful dispatcher call.
C5_Witness ==
    /\ pc = "done"
    /\ input.cloneable
    /\ PipelineHealthy
    /\ Grants = 1
    /\ outcomes = <<"err", "ok">>
    /\ returned[1].variant = "SdkSuccess"

(***************************************************************************)
(* C6: with a dispatcher that fails every call and a policy that has       *)
(* granted no retry, there is one attempt and one dispatcher call, the     *)
(* handler is never invoked, and the call ends in a DispatchFailure that   *)
(* carries no raw response.                                                *)
(***************************************************************************)
C6_AlwaysFailingDispatcher ==
    ( /\ PipelineHealthy
      /\ Grants = 0
      /\ \A k \in DOMAIN outcomes : outcomes[k] = "err" )
    =>
        /\ attempt <= 1
        /\ Len(dispatched) <= 1
        /\ unloaded = <<>>
        /\ loadedArgs = <<>>
        /\ bodyReads = 0
        /\ pc = "done" =>
              /\ Len(dispatched) = 1
              /\ returned[1].variant = "DispatchFailure"
              /\ returned[1].raw = <<>>
              /\ returned[1].parsed = <<>>
              /\ returned[1].err = <<[kind |-> "transport"]>>

\* The call ended on its only, failed, dispatcher call.
C6_Witness ==
    /\ pc = "done"
    /\ PipelineHealthy
    /\ Grants = 0
    /\ outcomes = <<"err">>
    /\ verdicts = <<"None">>

(***************************************************************************)
(* C7: a Stage that fails before dispatch ends the attempt there: no later *)
(* Stage runs, the transport is not called in that attempt, the handler is *)
(* not invoked, and the attempt's Result is ConstructionFailure carrying   *)
(* the Stage's error and no raw response.                                  *)
(***************************************************************************)
C7_StageFailureShortCircuits ==
    StageFailed =>
        /\ pc \notin {"stages", "dispatch", "loading", "drain"}
        /\ stageIdx <= Len(Stages)
        /\ Len(op.request.trail) = stageIdx - 1
        /\ sentNow = 0
        /\ response = <<>>
        /\ unloaded = <<>>
        /\ loadedArgs = <<>>
        /\ bodyReads = 0
        /\ result # <<>>
        /\ result[1].variant = "ConstructionFailure"
        /\ result[1].raw = <<>>
        /\ result[1].err = <<[kind |-> "stage", stage |-> Last(failedAt).stage]>>

\* The signing Stage failed after the Stages before it had run.
C7_Witness ==
    /\ StageFailed
    /\ pc = "policy"
    /\ Last(failedAt).stage = "sign"
    /\ dispatched = <<>>

(***************************************************************************)
(* C8: when parse_unloaded gives no answer and the body streams to its end *)
(* without error, parse_loaded receives a response whose body is the       *)
(* concatenation of the frames' bytes in order, with the status and        *)
(* headers received, and the raw response of the Result is rebuilt from    *)
(* exactly those bytes with the same status and headers.                   *)
(***************************************************************************)
C8_BufferingIsLossless ==
    loadedArgs # <<>> =>
        LET arg == loadedArgs[1]
            resp == response[1]
            raw == result[1].raw[1]
        IN /\ Len(loadedArgs) = 1
           /\ unloaded = <<<<>>>>
           /\ arg.body = StreamBytes(resp.body.frames)
           /\ SameHead(arg, resp)
           /\ result[1].raw # <<>>
           /\ SameHead(raw, resp)
           /\ raw.body.pos = 0
           /\ StreamBytes(raw.body.frames) = StreamBytes(resp.body.frames)
           /\ \A i \in DOMAIN raw.body.frames : ~raw.body.frames[i].err

\* A body of several frames, one of them of several slices, was buffered.
C8_Witness ==
    /\ loadedArgs # <<>>
    /\ Len(response[1].body.frames) = 2
    /\ Len(response[1].body.frames[1].buf) = 2
    /\ Len(response[1].body.frames[2].buf) = 1
    /\ loadedArgs[1].body = <<1, 2, 3>>

(***************************************************************************)
(* C9: whatever the handler's parse returns (parse_unloaded on the fast    *)
(* path, parse_loaded otherwise), Err(e) becomes ServiceError{raw, err: e} *)
(* and Ok(v) becomes SdkSuccess{raw, parsed: v}, with e or v unchanged and *)
(* raw carrying the status and headers of the response received.           *)
(***************************************************************************)
C9_ParseOutcomeMapping ==
    (Answered \/ loadedOut # <<>>) =>
        LET ans == IF Answered THEN unloaded[1][1] ELSE loadedOut[1]
            res == result[1]
        IN /\ result # <<>>
           /\ res.raw # <<>>
           /\ SameHead(res.raw[1], response[1])
           /\ IF ans.ok
              THEN /\ res.variant = "SdkSuccess"
                   /\ res.parsed = <<ans.val>>
                   /\ res.err = <<>>
              ELSE /\ res.variant = "ServiceError"
                   /\ res.err = <<ans.val>>
                   /\ res.parsed = <<>>

\* parse_loaded returned Err for a response with a body.
C9_Witness ==
    /\ pc = "policy"
    /\ loadedOut # <<>>
    /\ ~loadedOut[1].ok
    /\ loadedOut[1].val.body # <<>>
    /\ result[1].variant = "ServiceError"

(***************************************************************************)
(* C10: when parse_unloaded gives no answer and a frame of the body fails  *)
(* to read, the Result is ResponseError with the raw response (status and  *)
(* headers as received) and the read error; draining stops, parse_loaded   *)
(* is not called and the bytes read so far reach no handler.               *)
(***************************************************************************)
C10_DrainFailureIsResponseError ==
    ReadFailed =>
        /\ pc # "drain"
        /\ unloaded = <<<<>>>>
        /\ loadedArgs = <<>>
        /\ loadedOut = <<>>
        /\ response[1].body.frames[response[1].body.pos].err
        /\ bodyReads = response[1].body.pos
        /\ result # <<>>
        /\ result[1].variant = "ResponseError"
        /\ result[1].raw # <<>>
        /\ SameHead(result[1].raw[1], response[1])
        /\ result[1].err = <<[kind |-> "read", frame |-> response[1].body.pos]>>
        /\ result[1].parsed = <<>>

\* The read failed after bytes had already been buffered.
C10_Witness ==
    /\ ReadFailed
    /\ pc = "policy"
    /\ output # <<>>
    /\ response[1].body.pos = 2

(***************************************************************************)
(* C11: when should_retry gives None (the policy denies or has no verdict) *)
(* or the Operation could not be cloned, no further attempt is made and    *)
(* the call returns the Result of the latest attempt unchanged.            *)
(***************************************************************************)
C11_TerminalResultReturnedAsIs ==
    /\ (verdicts # <<>> /\ Last(verdicts) = "None") =>
          /\ pc = "done"
          /\ attempt = Len(verdicts)
          /\ result # <<>>
          /\ returned = result
    /\ (attempt >= 1 /\ cloned = <<>>) =>
          /\ pc \notin {"sleep", "retrying"}
          /\ verdicts = <<>> \/ Last(verdicts) = "Some"
          /\ pc = "done" => (result # <<>> /\ returned = result)

\* The second attempt's ServiceError was returned after the policy's None.
C11_Witness ==
    /\ pc = "done"
    /\ verdicts = <<"Some", "None">>
    /\ attempt = 2
    /\ returned[1].variant = "ServiceError"
    /\ returned[1].raw # <<>>

(***************************************************************************)
(* C12: an attempt ends in exactly one Result, of one of the five          *)
(* variants, and it carries the raw response exactly when the dispatcher   *)
(* returned one in that attempt: SdkSuccess, ResponseError and             *)
(* ServiceError always do, ConstructionFailure and DispatchFailure never.  *)
(***************************************************************************)
C12_VariantDeterminesRaw ==
    /\ Len(result) <= 1
    /\ pc \in {"stages", "dispatch", "loading", "drain"} => result = <<>>
    /\ pc \in {"policy", "sleep", "retrying"} => result # <<>>
    /\ (pc = "done" /\ attempt >= 1) => result # <<>>
    /\ result # <<>> =>
          LET r == result[1] IN
          /\ r.variant \in {"SdkSuccess", "ConstructionFailure", "DispatchFailure",
                             "ResponseError", "ServiceError"}
          /\ (r.raw # <<>>) <=> (response # <<>>)
          /\ (r.raw # <<>>) <=> (r.variant \in {"SdkSuccess", "ResponseError", "ServiceError"})
          /\ (r.raw = <<>>) <=> (r.variant \in {"ConstructionFailure", "DispatchFailure"})
          /\ r.raw # <<>> => (Len(r.raw) = 1 /\ SameHead(r.raw[1], response[1]))
          /\ (r.parsed # <<>>) <=> (r.variant = "SdkSuccess")
          /\ (r.err # <<>>) <=> (r.variant # "SdkSuccess")

\* A handler's Err for a response read to its end: ServiceError with the raw.
C12_Witness ==
    /\ pc = "policy"
    /\ result[1].variant = "ServiceError"
    /\ result[1].raw # <<>>
    /\ loadedArgs # <<>>

(***************************************************************************)
(* C13 as stated: a further attempt is started only when the should_retry  *)
(* verdict for the latest Result was None or absent.                       *)
(***************************************************************************)
C13_RetryOnlyOnNoneVerdict ==
    attempt >= 2 =>
        (Len(verdicts) < attempt - 1 \/ verdicts[attempt - 1] = "None")

(***************************************************************************)
(* C13 amended: a further attempt is started only when should_retry        *)
(* returned Some for the latest Result; after a None verdict (the policy   *)
(* denies or has no opinion) no attempt follows.                           *)
(***************************************************************************)
C13_RetryOnlyOnSomeVerdict ==
    /\ \A k \in 1..(attempt - 1) : k \in DOMAIN verdicts /\ verdicts[k] = "Some"
    /\ pc \in {"sleep", "retrying"} =>
          (Len(verdicts) = attempt /\ Last(verdicts) = "Some")
    /\ \A k \in DOMAIN verdicts :
          verdicts[k] = "None" => (k = Len(verdicts) /\ attempt = k)

\* A second attempt is under way after a Some verdict.
C13_Witness ==
    /\ attempt = 2
    /\ pc = "stages"
    /\ verdicts = <<"Some">>

(***************************************************************************)
(* C14 as stated: a successful attempt is surfaced without resubmitting;   *)
(* a resubmission is pending only after a failed attempt.                  *)
(***************************************************************************)
C14_ResubmitOnlyAfterFailure ==
    pc \in {"sleep", "retrying"} => result[1].variant # "SdkSuccess"

(***************************************************************************)
(* C14 amended: the driver does not look at whether the attempt succeeded. *)
(* Any Result, SdkSuccess included, is surfaced when should_retry gives    *)
(* None or no clone was saved, and is followed by a resubmission exactly   *)
(* when a clone was saved and should_retry gave Some for it.               *)
(***************************************************************************)
C14_ResubmitOnlyOnGrant ==
    (result # <<>> /\ pc # "policy") =>
        \/ /\ pc = "done"
           /\ ~readyFailed
           /\ returned = result
           /\ cloned = <<>> \/ Last(verdicts) = "None"
        \/ /\ pc \in {"sleep", "retrying"} \/ (pc = "done" /\ readyFailed)
           /\ cloned # <<>>
           /\ Len(verdicts) = attempt
           /\ Last(verdicts) = "Some"

\* A successful attempt is about to be resubmitted on the policy's Some.
C14_Witness ==
    /\ pc = "retrying"
    /\ result[1].variant = "SdkSuccess"
    /\ Last(verdicts) = "Some"
    /\ sleeps = 1

(***************************************************************************)
(* C15: a granted retry first waits out the fixed delay and only then      *)
(* starts the next attempt, on the clone saved from the caller's Operation *)
(* and not on the Operation the previous attempt consumed: between two     *)
(* consecutive dispatcher calls a whole delay has passed.                  *)
(***************************************************************************)
Waited == sleeps * RetryDelay

C15_DelayBeforeRetry ==
    /\ attempt >= 1 =>
          sleeps = (IF pc = "retrying" \/ (pc = "done" /\ readyFailed)
                    THEN attempt ELSE attempt - 1)
    /\ pc = "sleep" => Len(verdicts) = sleeps + 1
    /\ dispatched # <<>> => Waited >= RetryDelay * (Len(dispatched) - 1)
    /\ cloned # <<>> => cloned[1] = input
    /\ (attempt >= 2 /\ pc = "stages" /\ stageIdx = 1) => op = input

\* Two dispatcher calls with one completed delay between them.
C15_Witness ==
    /\ attempt = 2
    /\ sleeps = 1
    /\ Waited = 5
    /\ Len(dispatched) = 2

(***************************************************************************)
(* C16: every attempt, the first and each retry, starts only once the      *)
(* dispatcher reports ready; while it is not ready the call only waits; a  *)
(* failed readiness poll ends the call and is never a Result handed to the *)
(* retry policy.                                                           *)
(***************************************************************************)
C16_ReadinessAwaited ==
    /\ pc \in {"stages", "dispatch"} => dispatcher = "ready"
    /\ (pc \in {"ready", "retrying"} /\ dispatcher = "busy") =>
          /\ ~ENABLED FirstCall
          /\ ~ENABLED RetryCall
          /\ ~ENABLED ReadyFails
          /\ ENABLED DispatcherSettles
          /\ returned = <<>>
    /\ Len(verdicts) <= attempt
    /\ result # <<>> => result[1].err # <<[kind |-> "not_ready"]>>
    /\ readyFailed =>
          /\ pc = "done"
          /\ dispatcher = "failed"
          /\ returned = <<DispatchFailure([kind |-> "not_ready"])>>
          /\ Len(verdicts) = attempt
          /\ Len(dispatched) <= attempt

\* A granted retry is waiting on a dispatcher that is not ready.
C16_Witness ==
    /\ pc = "retrying"
    /\ dispatcher = "busy"
    /\ attempt = 1
    /\ Len(dispatched) = 1

C18_HandlerOnlySeesResponses ==
    /\ Len(unloaded) <= 1
    /\ Len(loadedArgs) <= 1
    /\ Len(loadedOut) = Len(loadedArgs)
    /\ response = <<>> =>
          /\ unloaded = <<>>
          /\ loadedArgs = <<>>
          /\ result # <<>> =>
                result[1].variant \in {"ConstructionFailure", "DispatchFailure"}
    /\ StageFailed =>
          /\ response = <<>>
          /\ result # <<>> /\ result[1].variant = "ConstructionFailure"
    /\ response # <<>> => Len(unloaded) = (IF pc = "loading" THEN 0 ELSE 1)
    /\ (unloaded # <<>> /\ FastPath(unloaded[1])) => loadedArgs = <<>>
    /\ ReadFailed => loadedArgs = <<>>
    /\ loadedArgs # <<>> =>
          /\ unloaded = << <<>> >>
          /\ response[1].body.pos = Len(response[1].body.frames)
          /\ bodyReads = Len(response[1].body.frames) + 1
          /\ \A i \in DOMAIN response[1].body.frames :
                ~response[1].body.frames[i].err

\* parse_loaded called after a two-frame body was drained.
C18_Witness ==
    /\ pc = "policy"
    /\ unloaded = << <<>> >>
    /\ Len(loadedArgs) = 1
    /\ Len(response[1].body.frames) = 2
    /\ bodyReads = 3

(***************************************************************************)
(* C20: with finitely many granted retries and every awaited step          *)
(* (readiness, the exchange, the body drain, each delay) completing, the   *)
(* call eventually returns, and what it returns is exactly one Result,     *)
(* which is never replaced afterwards.                                     *)
(***************************************************************************)
C20_CallReturnsExactlyOnce ==
    /\ <>[](pc = "done" /\ Len(returned) = 1)
    /\ [](Len(returned) <= 1)
    /\ [](returned # <<>> => pc = "done")
    /\ [][returned # <<>> => returned' = returned]_vars

\* A call that returned its one Result after a delayed second attempt.
C20_Witness ==
    /\ pc = "done"
    /\ Len(returned) = 1
    /\ attempt = 2
    /\ sleeps = 1
    /\ bodyReads >= 1

====
